---- MODULE Spec2Model ----
(***************************************************************************)
(* Model of the as4630_54pe sonic_platform adapters: fan.py, psu.py,       *)
(* thermal.py and component.py.  Each adapter method is an operator from   *)
(* (object, sysfs) to its outcome (return value or raised exception), the  *)
(* pseudo-file accesses it made, in order, and the sysfs it leaves.        *)
(* Python strings are sequences of one-character strings; paths are TLA+   *)
(* strings built the way the code formats them.                            *)
(***************************************************************************)
EXTENDS Integers, Sequences, FiniteSets, TLC

VARIABLES sysfs, THERMAL_NAME_LIST, self, call

vars == <<sysfs, THERMAL_NAME_LIST, self, call>>

(***************************************************************************)
(* Bounds of the model.                                                    *)
(***************************************************************************)
\* fan trays 0..MaxFanTray are constructed
MaxFanTray == 1
\* Thermal() is constructed at most MaxThermalCtor times
MaxThermalCtor == 2
\* Thermal() is constructed with an index in -1..MaxThermalIndex
MaxThermalIndex == 3

(***************************************************************************)
(* Python values and outcomes.                                             *)
(***************************************************************************)
PyBool(b) == [t |-> "bool", b |-> b]
PyIntV(n) == [t |-> "int", n |-> n]
PyStrV(s) == [t |-> "str", s |-> s]
\* a float, kept exactly as the fraction num/den
PyFloat(num, den) == [t |-> "float", num |-> num, den |-> den]
\* a str the program names by a literal, kept whole
PyName(text) == [t |-> "str", text |-> text]
PyNone == [t |-> "NoneType"]

Return(v) == [kind |-> "return", val |-> v]
Raise(e) == [kind |-> "raise", exc |-> e]

Truthy(v) ==
    CASE v.t = "bool" -> v.b
      [] v.t = "int" -> v.n # 0
      [] v.t = "float" -> v.num # 0
      [] v.t = "str" -> Len(v.s) > 0
      [] OTHER -> FALSE

Rd(path) == [kind |-> "read", path |-> path]
Wr(path) == [kind |-> "write", path |-> path]
IsFileAcc(path) == [kind |-> "isfile", path |-> path]

(***************************************************************************)
(* Python string functions.                                                *)
(***************************************************************************)
Whitespace == {" ", "\n", "\t"}

RECURSIVE LStrip(_)
LStrip(s) == IF s # <<>> /\ Head(s) \in Whitespace THEN LStrip(Tail(s)) ELSE s

RECURSIVE RStrip(_)
RStrip(s) ==
    IF s # <<>> /\ s[Len(s)] \in Whitespace
    THEN RStrip(SubSeq(s, 1, Len(s) - 1))
    ELSE s

Strip(s) == LStrip(RStrip(s))

DigitChars == <<"0", "1", "2", "3", "4", "5", "6", "7", "8", "9",
                "a", "b", "c", "d", "e", "f">>
UpperDigitChars == <<"0", "1", "2", "3", "4", "5", "6", "7", "8", "9",
                     "A", "B", "C", "D", "E", "F">>

\* the value of digit c in the given base, or -1 when c is no digit of it
DigitValue(c, base) ==
    IF \E i \in 1..base : DigitChars[i] = c \/ UpperDigitChars[i] = c
    THEN (CHOOSE i \in 1..base : DigitChars[i] = c \/ UpperDigitChars[i] = c) - 1
    ELSE -1

\* the body of an int literal: sign and, for base 16, the 0x prefix removed
Unsigned(s) == IF s # <<>> /\ Head(s) \in {"-", "+"} THEN Tail(s) ELSE s
Unprefixed(s, base) ==
    IF base = 16 /\ Len(s) >= 2 /\ s[1] = "0" /\ s[2] \in {"x", "X"}
    THEN SubSeq(s, 3, Len(s))
    ELSE s
IntBody(s, base) == Unprefixed(Unsigned(Strip(s)), base)

\* int(s, base) raises ValueError unless this holds
IntOk(s, base) ==
    /\ IntBody(s, base) # <<>>
    /\ \A i \in 1..Len(IntBody(s, base)) : DigitValue(IntBody(s, base)[i], base) >= 0

RECURSIVE Magnitude(_, _)
Magnitude(d, base) ==
    IF d = <<>> THEN 0
    ELSE Magnitude(SubSeq(d, 1, Len(d) - 1), base) * base + DigitValue(d[Len(d)], base)

\* int(s, base) for a string on which IntOk holds
PyInt(s, base) ==
    IF Strip(s) # <<>> /\ Head(Strip(s)) = "-"
    THEN 0 - Magnitude(IntBody(s, base), base)
    ELSE Magnitude(IntBody(s, base), base)

RECURSIVE NatStr(_)
NatStr(n) == IF n < 10 THEN <<DigitChars[n + 1]>> ELSE NatStr(n \div 10) \o <<DigitChars[(n % 10) + 1]>>

\* str(n) and "{}".format(n) of an int
PyStr(n) == IF n < 0 THEN <<"-">> \o NatStr(0 - n) ELSE NatStr(n)

\* float(s) raises ValueError unless this holds (the drivers print integers)
FloatOk(s) == IntOk(s, 10)
\* float(s) for a string on which FloatOk holds
PyFloatOf(s) == PyFloat(PyInt(s, 10), 1)
\* x / n for a float x and an int n
FloatDiv(x, n) == PyFloat(x.num, x.den * n)

Abs(n) == IF n < 0 THEN 0 - n ELSE n
\* "{:.3f}".format(x) for a float x that is a whole number of thousandths
Format3f(x) ==
    LET m == (x.num * 1000) \div x.den
        frac == NatStr(Abs(m) % 1000)
        pad == IF Len(frac) = 1 THEN <<"0", "0">> ELSE IF Len(frac) = 2 THEN <<"0">> ELSE <<>>
    IN  (IF m < 0 THEN <<"-">> ELSE <<>>) \o NatStr(Abs(m) \div 1000) \o <<".">> \o pad \o frac

\* fd.readline().rstrip(): the first line, right-stripped
RECURSIVE FirstLine(_)
FirstLine(s) ==
    IF s = <<>> THEN <<>>
    ELSE IF Head(s) = "\n" THEN <<"\n">>
    ELSE <<Head(s)>> \o FirstLine(Tail(s))

(***************************************************************************)
(* Pseudo-files.  A file is absent, or it exists and is "noperm" (opening *)
(* it raises IOError), "ro" (read-only) or "rw" (read-write).              *)
(***************************************************************************)
Absent == [st |-> "absent", data |-> <<>>]
File(st, data) == [st |-> st, data |-> data]

Exists(fs, path) == path \in DOMAIN fs /\ fs[path].st # "absent"
Readable(fs, path) == path \in DOMAIN fs /\ fs[path].st \in {"ro", "rw"}
Writable(fs, path) == path \in DOMAIN fs /\ fs[path].st = "rw"

(***************************************************************************)
(* fan.py                                                                  *)
(***************************************************************************)
CPLD_I2C_PATH == "/sys/bus/i2c/devices/3-0060/fan_"
PSU_I2C_MAPPING == [i \in {0, 1} |-> IF i = 0 THEN [num |-> 10, addr |-> "58"]
                                               ELSE [num |-> 11, addr |-> "59"]]
\* PSU_HWMON_I2C_PATH.format(num, addr)
PSU_HWMON_I2C_PATH(num, addr) ==
    "/sys/bus/i2c/devices/" \o ToString(num) \o "-00" \o addr \o "/"

FAN_DIRECTION_INTAKE == PyStrV(<<"i", "n", "t", "a", "k", "e">>)
FAN_DIRECTION_EXHAUST == PyStrV(<<"e", "x", "h", "a", "u", "s", "t">>)

\* Fan(fan_tray_index, fan_index, is_psu_fan, psu_index)
Fan(fan_tray_index, is_psu_fan, psu_index) ==
    [cls |-> "Fan", fan_index |-> 0, fan_tray_index |-> fan_tray_index,
     is_psu_fan |-> is_psu_fan, psu_index |-> psu_index,
     psu_hwmon_path |->
        IF is_psu_fan
        THEN PSU_HWMON_I2C_PATH(PSU_I2C_MAPPING[psu_index].num,
                                PSU_I2C_MAPPING[psu_index].addr)
        ELSE ""]

\* Fan.__read_txt_file: the stripped contents, "" on IOError
Fan_read_txt_file(fs, file_path) ==
    IF Readable(fs, file_path) THEN Strip(fs[file_path].data) ELSE <<>>

\* Fan.__write_txt_file: the sysfs after the write and whether it succeeded
Fan_write_txt_file(fs, file_path, value) ==
    IF Writable(fs, file_path)
    THEN [ok |-> TRUE, fs |-> [fs EXCEPT ![file_path].data = PyStr(value)]]
    ELSE [ok |-> FALSE, fs |-> fs]

Fan_get_presence(o, fs) ==
    LET present_path == CPLD_I2C_PATH \o "present_" \o ToString(o.fan_tray_index + 1)
        val == Fan_read_txt_file(fs, present_path)
    IN  [acc |-> <<Rd(present_path)>>,
         fs |-> fs,
         out |-> IF ~o.is_psu_fan
                 THEN IF IntOk(val, 10) THEN Return(PyIntV(PyInt(val, 10)))
                                        ELSE Raise("ValueError")
                 ELSE Return(PyBool(TRUE))]

Fan_get_direction(o, fs) ==
    IF ~o.is_psu_fan
    THEN LET dir_str == CPLD_I2C_PATH \o "direction_" \o ToString(o.fan_tray_index)
             val == PyStrV(Fan_read_txt_file(fs, dir_str))
         IN  [acc |-> <<Rd(dir_str)>>,
              fs |-> fs,
              \* val is a str and is compared with the int 0
              out |-> IF val = PyIntV(0) THEN Return(FAN_DIRECTION_EXHAUST)
                                         ELSE Return(FAN_DIRECTION_INTAKE)]
    ELSE [acc |-> <<>>, fs |-> fs, out |-> Return(FAN_DIRECTION_EXHAUST)]

\* Fan.get_speed reading duty_cycle_percentage without asking get_presence
Fan_get_speed_unguarded(o, fs) ==
    IF o.is_psu_fan
    THEN LET psu_fan_path == o.psu_hwmon_path \o "psu_fan1_speed_rpm"
             fan_speed_rpm == Fan_read_txt_file(fs, psu_fan_path)
             speed == (PyInt(fan_speed_rpm, 10) * 100) \div 26688
         IN  [acc |-> <<Rd(psu_fan_path)>>,
              fs |-> fs,
              out |-> IF ~IntOk(fan_speed_rpm, 10) THEN Raise("ValueError")
                      ELSE IF speed > 100 THEN Return(PyIntV(100))
                      ELSE Return(PyIntV(speed))]
    ELSE LET speed_path == CPLD_I2C_PATH \o "duty_cycle_percentage"
             speed == Fan_read_txt_file(fs, speed_path)
         IN  [acc |-> <<Rd(speed_path)>>,
              fs |-> fs,
              out |-> IF IntOk(speed, 10) THEN Return(PyIntV(PyInt(speed, 10)))
                                          ELSE Raise("ValueError")]

Fan_get_speed(o, fs) ==
    IF o.is_psu_fan
    THEN LET psu_fan_path == o.psu_hwmon_path \o "psu_fan1_speed_rpm"
             fan_speed_rpm == Fan_read_txt_file(fs, psu_fan_path)
             speed == (PyInt(fan_speed_rpm, 10) * 100) \div 26688
         IN  [acc |-> <<Rd(psu_fan_path)>>,
              fs |-> fs,
              out |-> IF ~IntOk(fan_speed_rpm, 10) THEN Raise("ValueError")
                      ELSE IF speed > 100 THEN Return(PyIntV(100))
                      ELSE Return(PyIntV(speed))]
    ELSE LET pres == Fan_get_presence(o, fs)
             speed_path == CPLD_I2C_PATH \o "duty_cycle_percentage"
             speed == Fan_read_txt_file(fs, speed_path)
         IN  IF pres.out.kind = "raise" THEN pres
             ELSE IF Truthy(pres.out.val)
             THEN [acc |-> pres.acc \o <<Rd(speed_path)>>,
                   fs |-> fs,
                   out |-> IF IntOk(speed, 10) THEN Return(PyIntV(PyInt(speed, 10)))
                                               ELSE Raise("ValueError")]
             ELSE [acc |-> pres.acc, fs |-> fs, out |-> Return(PyIntV(0))]

Fan_set_speed(o, fs, speed) ==
    IF o.is_psu_fan
    THEN [acc |-> <<>>, fs |-> fs, out |-> Return(PyBool(FALSE))]
    ELSE LET pres == Fan_get_presence(o, fs)
             speed_path == CPLD_I2C_PATH \o "duty_cycle_percentage"
             w == Fan_write_txt_file(fs, speed_path, speed)
         IN  IF pres.out.kind = "raise" THEN pres
             ELSE IF Truthy(pres.out.val)
             THEN [acc |-> pres.acc \o <<Wr(speed_path)>>,
                   fs |-> w.fs,
                   out |-> Return(PyBool(w.ok))]
             ELSE [acc |-> pres.acc, fs |-> fs, out |-> Return(PyBool(FALSE))]

(***************************************************************************)
(* psu.py                                                                  *)
(***************************************************************************)
\* I2C_PATH.format(num, addr)
I2C_PATH(num, addr) == "/sys/bus/i2c/devices/" \o ToString(num) \o "-00" \o addr \o "/"
PSU_NAME_LIST == <<"PSU-1", "PSU-2">>
PSU_HWMON_I2C_MAPPING == [i \in {0, 1} |-> IF i = 0 THEN [num |-> 10, addr |-> "58"]
                                                     ELSE [num |-> 11, addr |-> "59"]]
PSU_CPLD_I2C_MAPPING == [i \in {0, 1} |-> IF i = 0 THEN [num |-> 10, addr |-> "50"]
                                                    ELSE [num |-> 11, addr |-> "51"]]

\* Psu(psu_index) with hwmon_path formatted after i2c_num and i2c_addr were
\* reassigned from PSU_CPLD_I2C_MAPPING
Psu_hwmon_from_cpld(psu_index) ==
    [cls |-> "Psu", index |-> psu_index,
     hwmon_path |-> I2C_PATH(PSU_CPLD_I2C_MAPPING[psu_index].num,
                                       PSU_CPLD_I2C_MAPPING[psu_index].addr),
     cpld_path |-> I2C_PATH(PSU_CPLD_I2C_MAPPING[psu_index].num,
                                      PSU_CPLD_I2C_MAPPING[psu_index].addr)]

\* Psu(psu_index)
Psu(psu_index) ==
    [cls |-> "Psu", index |-> psu_index,
     hwmon_path |-> I2C_PATH(PSU_HWMON_I2C_MAPPING[psu_index].num,
                                       PSU_HWMON_I2C_MAPPING[psu_index].addr),
     cpld_path |-> I2C_PATH(PSU_CPLD_I2C_MAPPING[psu_index].num,
                                      PSU_CPLD_I2C_MAPPING[psu_index].addr)]

\* Psu.__read_txt_file: the stripped contents, "" on IOError
Psu_read_txt_file(fs, file_path) ==
    IF Readable(fs, file_path) THEN Strip(fs[file_path].data) ELSE <<>>

\* the shape of the six telemetry getters: float(read(hwmon_path + name)) / 1000
Psu_read_scaled(o, fs, name) ==
    LET path == o.hwmon_path \o name
        val == Psu_read_txt_file(fs, path)
    IN  [acc |-> <<Rd(path)>>,
         fs |-> fs,
         out |-> IF FloatOk(val) THEN Return(FloatDiv(PyFloatOf(val), 1000))
                                 ELSE Raise("ValueError")]

Psu_get_voltage(o, fs) == Psu_read_scaled(o, fs, "psu_v_out")
Psu_get_current(o, fs) == Psu_read_scaled(o, fs, "psu_i_out")
Psu_get_power(o, fs) == Psu_read_scaled(o, fs, "psu_p_out")
Psu_get_temperature(o, fs) == Psu_read_scaled(o, fs, "psu_temp1_input")
Psu_get_voltage_high_threshold(o, fs) == Psu_read_scaled(o, fs, "psu_mfr_vout_max")
Psu_get_voltage_low_threshold(o, fs) == Psu_read_scaled(o, fs, "psu_mfr_vout_min")

Psu_get_name(o, fs) ==
    [acc |-> <<>>, fs |-> fs, out |-> Return(PyName(PSU_NAME_LIST[o.index + 1]))]

Psu_get_presence(o, fs) ==
    LET presence_path == o.cpld_path \o "psu_present"
        val == Psu_read_txt_file(fs, presence_path)
    IN  [acc |-> <<Rd(presence_path)>>,
         fs |-> fs,
         out |-> IF IntOk(val, 10) THEN Return(PyBool(PyInt(val, 10) = 1))
                                   ELSE Raise("ValueError")]

Psu_get_status(o, fs) ==
    LET power_path == o.cpld_path \o "psu_power_good"
        val == Psu_read_txt_file(fs, power_path)
    IN  [acc |-> <<Rd(power_path)>>,
         fs |-> fs,
         out |-> IF IntOk(val, 10) THEN Return(PyBool(PyInt(val, 10) = 1))
                                   ELSE Raise("ValueError")]

Psu_get_powergood_status(o, fs) == Psu_get_status(o, fs)

(***************************************************************************)
(* component.py                                                            *)
(***************************************************************************)
CPLD_ADDR_MAPPING == [n \in {"CPLD"} |-> "3-0060"]
COMPONENT_SYSFS_PATH == "/sys/bus/i2c/devices/"
BIOS_VERSION_PATH == "/sys/class/dmi/id/bios_version"
COMPONENT_NAME_LIST == <<"CPLD", "BIOS">>

COMPONENT_DES_LIST == <<"CPLD", "Basic Input/Output System">>

\* list[index] of Python: negative indexes count from the end
PyIndexOk(list, index) == 0 - Len(list) <= index /\ index < Len(list)
PyIndex(list, index) == IF index >= 0 THEN list[index + 1] ELSE list[Len(list) + index + 1]

\* Component.get_name
Component_get_name(index) ==
    IF PyIndexOk(COMPONENT_NAME_LIST, index)
    THEN Return(PyName(PyIndex(COMPONENT_NAME_LIST, index)))
    ELSE Raise("IndexError")

\* Component.get_description
Component_get_description(index) ==
    IF PyIndexOk(COMPONENT_DES_LIST, index)
    THEN Return(PyName(PyIndex(COMPONENT_DES_LIST, index)))
    ELSE Raise("IndexError")

\* Component(component_index): the object, or the exception of get_name
Component(component_index) ==
    IF Component_get_name(component_index).kind = "return"
    THEN Return([cls |-> "Component", index |-> component_index,
                 name |-> Component_get_name(component_index).val.text])
    ELSE Component_get_name(component_index)

\* Component.__get_bios_version
Component_get_bios_version(fs) ==
    IF Readable(fs, BIOS_VERSION_PATH)
    THEN PyStrV(Strip(fs[BIOS_VERSION_PATH].data))
    ELSE PyNone

\* Component.get_sysfs_value: cat's stripped output, None when cat wrote to stderr
Component_get_sysfs_value(fs, addr, name) ==
    LET path == COMPONENT_SYSFS_PATH \o addr \o "/" \o name
    IN  IF Readable(fs, path) THEN PyStrV(Strip(fs[path].data)) ELSE PyNone

\* Component.__get_cpld_version: the dict, name -> version
Component_get_cpld_version(fs) ==
    [cpld_name \in DOMAIN CPLD_ADDR_MAPPING |->
        LET cpld_version_raw ==
                Component_get_sysfs_value(fs, CPLD_ADDR_MAPPING[cpld_name], "version")
        IN  IF cpld_version_raw.t = "str" /\ IntOk(cpld_version_raw.s, 16)
            THEN PyStrV(PyStr(PyInt(cpld_version_raw.s, 16)))
            \* int() raised TypeError or ValueError: the string 'None'
            ELSE PyStrV(<<"N", "o", "n", "e">>)]

Component_get_firmware_version(o, fs) ==
    IF o.name = "BIOS"
    THEN [acc |-> <<Rd(BIOS_VERSION_PATH)>>, fs |-> fs,
          out |-> Return(Component_get_bios_version(fs))]
    \* "CPLD" in self.name, for the names of COMPONENT_NAME_LIST
    ELSE IF o.name = "CPLD"
    THEN [acc |-> <<Rd(COMPONENT_SYSFS_PATH \o CPLD_ADDR_MAPPING["CPLD"] \o "/version")>>,
          fs |-> fs,
          out |-> Return(IF o.name \in DOMAIN Component_get_cpld_version(fs)
                         THEN Component_get_cpld_version(fs)[o.name]
                         ELSE PyNone)]
    ELSE [acc |-> <<>>, fs |-> fs, out |-> Return(PyNone)]

(***************************************************************************)
(* thermal.py                                                              *)
(***************************************************************************)
THERMAL_SYSFS_PATH == "/sys/bus/i2c/devices"
\* the i2c_path dict of Thermal.__init__
THERMAL_I2C_PATH == [i \in 0..2 |->
    IF i = 0 THEN "14-0048/hwmon/hwmon*/"
    ELSE IF i = 1 THEN "24-004b/hwmon/hwmon*/"
    ELSE "25-004a/hwmon/hwmon*/"]
ThermalDevices == {"14-0048", "24-004b", "25-004a"}
\* directory names a hwmon directory can hold; "hwmon*" is the name the
\* pattern itself spells
HwmonDirNames == {"hwmon0", "hwmon*"}
ThermalFileNames == {"temp1_input", "temp1_max", "temp1_fault"}
ThermalFile(dev, dir, name) ==
    THERMAL_SYSFS_PATH \o "/" \o dev \o "/hwmon/" \o dir \o "/" \o name

\* Thermal(thermal_index): the class list it leaves and the object or exception
Thermal(thermal_index, names) ==
    LET appended == names \o <<"Temp sensor 1", "Temp sensor 2", "Temp sensor 3">>
        i2c_path == IF thermal_index \in DOMAIN THERMAL_I2C_PATH
                    THEN THERMAL_I2C_PATH[thermal_index]
                    ELSE "None"
    IN  [names |-> appended,
         out |-> IF PyIndexOk(appended, thermal_index)
                 THEN Return([cls |-> "Thermal", index |-> thermal_index,
                              hwmon_path |-> THERMAL_SYSFS_PATH \o "/" \o i2c_path,
                              ss_key |-> PyIndex(appended, thermal_index),
                              ss_index |-> 1])
                 ELSE Raise("IndexError")]

\* os.path.join(hwmon_path, name)
Thermal_join(hwmon_path, name) ==
    IF \E i \in DOMAIN THERMAL_I2C_PATH :
            hwmon_path = THERMAL_SYSFS_PATH \o "/" \o THERMAL_I2C_PATH[i]
    THEN hwmon_path \o name
    ELSE hwmon_path \o "/" \o name

\* glob.glob(pattern): the existing paths the pattern matches
Glob(fs, pattern) ==
    {p \in DOMAIN fs :
        /\ Exists(fs, p)
        /\ \/ p = pattern
           \/ \E dev \in ThermalDevices, dir \in HwmonDirNames, name \in ThermalFileNames :
                  pattern = ThermalFile(dev, "hwmon*", name) /\ p = ThermalFile(dev, dir, name)}

\* the orders glob may list the matches in
GlobOrders(matches) ==
    {order \in [1..Cardinality(matches) -> matches] :
        \A i, j \in DOMAIN order : i # j => order[i] # order[j]}

\* the loop of Thermal.__read_txt_file over the listed matches: the first line
\* of the first file that opens, None when none does
RECURSIVE Thermal_read_first(_, _, _)
Thermal_read_first(fs, order, acc) ==
    IF order = <<>> THEN [acc |-> acc, val |-> PyNone]
    ELSE IF Readable(fs, Head(order))
    THEN [acc |-> acc \o <<Rd(Head(order))>>,
          val |-> PyStrV(RStrip(FirstLine(fs[Head(order)].data)))]
    ELSE Thermal_read_first(fs, Tail(order), acc \o <<Rd(Head(order))>>)

\* Thermal.__read_txt_file: what it can return, one result per order of the matches
Thermal_read_txt_file(fs, file_path) ==
    {Thermal_read_first(fs, order, <<>>) : order \in GlobOrders(Glob(fs, file_path))}

\* Thermal.__get_temp
Thermal_get_temp(o, fs, temp_file) ==
    {[acc |-> r.acc,
      fs |-> fs,
      out |-> IF r.val.t # "str" THEN Raise("TypeError")
              ELSE IF ~FloatOk(r.val.s) THEN Raise("ValueError")
              ELSE Return(PyStrV(Format3f(FloatDiv(PyFloatOf(r.val.s), 1000))))] :
        r \in Thermal_read_txt_file(fs, Thermal_join(o.hwmon_path, temp_file))}

Thermal_get_temperature(o, fs) == Thermal_get_temp(o, fs, "temp" \o ToString(o.ss_index) \o "_input")
Thermal_get_high_threshold(o, fs) == Thermal_get_temp(o, fs, "temp" \o ToString(o.ss_index) \o "_max")

Thermal_get_name(o, names) ==
    IF PyIndexOk(names, o.index) THEN Return(PyName(PyIndex(names, o.index)))
                                 ELSE Raise("IndexError")

\* os.path.isfile(path): the path is taken as spelled
IsFile(fs, path) == Exists(fs, path)

Thermal_get_presence(o, fs) ==
    LET temp_file_path ==
            Thermal_join(o.hwmon_path, "temp" \o ToString(o.ss_index) \o "_input")
    IN  [acc |-> <<IsFileAcc(temp_file_path)>>,
         fs |-> fs,
         out |-> Return(PyBool(IsFile(fs, temp_file_path)))]

Thermal_get_status(o, fs) ==
    LET pres == Thermal_get_presence(o, fs)
        fault_file_path ==
            Thermal_join(o.hwmon_path, "temp" \o ToString(o.ss_index) \o "_fault")
    IN  IF ~pres.out.val.b
        THEN {[acc |-> pres.acc, fs |-> fs, out |-> Return(PyBool(FALSE))]}
        ELSE IF ~IsFile(fs, fault_file_path)
        THEN {[acc |-> pres.acc \o <<IsFileAcc(fault_file_path)>>, fs |-> fs,
               out |-> Return(PyBool(TRUE))]}
        ELSE {[acc |-> pres.acc \o <<IsFileAcc(fault_file_path)>> \o r.acc,
               fs |-> fs,
               out |-> IF r.val.t # "str" THEN Raise("TypeError")
                       ELSE IF ~IntOk(r.val.s, 10) THEN Raise("ValueError")
                       ELSE Return(PyBool(PyInt(r.val.s, 10) = 0))] :
                r \in Thermal_read_txt_file(fs, fault_file_path)}

(***************************************************************************)
(* The pseudo-files each adapter is run against.                           *)
(***************************************************************************)
FanPresentPath(n) == CPLD_I2C_PATH \o "present_" \o ToString(n)
FanDirectionPath(n) == CPLD_I2C_PATH \o "direction_" \o ToString(n)
FanDutyPath == CPLD_I2C_PATH \o "duty_cycle_percentage"
PsuFanRpmPath(i) ==
    PSU_HWMON_I2C_PATH(PSU_I2C_MAPPING[i].num, PSU_I2C_MAPPING[i].addr) \o "psu_fan1_speed_rpm"
FanPaths ==
    {FanPresentPath(n) : n \in 1..(MaxFanTray + 1)}
        \cup {FanDirectionPath(n) : n \in 0..MaxFanTray}
        \cup {FanDutyPath} \cup {PsuFanRpmPath(i) : i \in {0, 1}}

PresentFiles == {Absent, File("ro", <<"0", "\n">>), File("ro", <<"1", "\n">>)}
DirectionFiles == {File("ro", <<"0", "\n">>), File("ro", <<"1", "\n">>)}
DutyFiles == {Absent, File("ro", <<"3", "8", "\n">>), File("rw", <<"3", "8", "\n">>)}
RpmFiles == {Absent, File("ro", <<"8", "0", "0", "0", "\n">>),
             File("ro", <<"3", "0", "0", "0", "0", "\n">>)}
\* the speeds set_speed is called with
SpeedArgs == {-10, 50, 150}

PsuHwmonNames == <<"psu_v_out", "psu_i_out", "psu_p_out", "psu_temp1_input",
                   "psu_mfr_vout_max", "psu_mfr_vout_min">>
PsuCpldNames == <<"psu_present", "psu_power_good">>
PsuHwmonPath(i, k) ==
    I2C_PATH(PSU_HWMON_I2C_MAPPING[i].num, PSU_HWMON_I2C_MAPPING[i].addr)
        \o PsuHwmonNames[k]
PsuCpldPath(i, k) ==
    I2C_PATH(PSU_CPLD_I2C_MAPPING[i].num, PSU_CPLD_I2C_MAPPING[i].addr)
        \o PsuCpldNames[k]
PsuPaths ==
    {PsuHwmonPath(i, k) : i \in {0, 1}, k \in 1..6} \cup {PsuCpldPath(i, k) : i \in {0, 1}, k \in 1..2}

\* what a PSU's six hwmon files hold together
PsuHwmonStates ==
    {<<File("ro", <<"1", "2", "0", "0", "0", "\n">>), File("ro", <<"5", "2", "5", "0", "\n">>),
       File("ro", <<"6", "3", "0", "0", "0", "\n">>), File("ro", <<"3", "4", "0", "0", "0", "\n">>),
       File("ro", <<"1", "3", "2", "0", "0", "\n">>), File("ro", <<"1", "0", "8", "0", "0", "\n">>)>>,
     <<File("ro", <<"1", "1", "9", "5", "1", "\n">>), File("ro", <<"0", "\n">>),
       File("ro", <<"7", "\n">>), File("ro", <<"-", "5", "0", "0", "\n">>),
       File("ro", <<"1", "3", "1", "9", "9", "\n">>), File("ro", <<"9", "9", "9", "\n">>)>>,
     <<File("ro", <<>>), File("ro", <<"\n">>), Absent, Absent, Absent, Absent>>,
     <<Absent, Absent, Absent, Absent, Absent, Absent>>}
\* what a PSU's psu_present and psu_power_good hold together
PsuCpldStates ==
    {<<File("ro", <<"1", "\n">>), File("ro", <<"1", "\n">>)>>,
     <<File("ro", <<"1", "\n">>), File("ro", <<"0", "\n">>)>>,
     <<File("ro", <<"0", "\n">>), File("ro", <<"0", "\n">>)>>,
     <<Absent, Absent>>}

ComponentCpldPath == COMPONENT_SYSFS_PATH \o CPLD_ADDR_MAPPING["CPLD"] \o "/version"
ComponentPaths == {BIOS_VERSION_PATH, ComponentCpldPath}
BiosFiles == {Absent, File("noperm", <<>>), File("ro", <<>>), File("ro", <<" ", "1", ".", "0", "b", "\n">>)}
CpldVersionFiles ==
    {Absent, File("ro", <<>>), File("ro", <<"5", "\n">>), File("ro", <<"1", "a", "\n">>),
     File("ro", <<"0", "x", "1", "0", "\n">>), File("ro", <<"z", "z", "\n">>)}
\* the indexes Component() is constructed with
ComponentIndexArgs == -1..2

ThermalPaths ==
    {ThermalFile(dev, dir, name) : dev \in ThermalDevices, dir \in HwmonDirNames,
                                   name \in ThermalFileNames}
\* what the hwmon directories of one sensor hold: dir -> name -> file
ThermalNone == [dir \in HwmonDirNames |-> [name \in ThermalFileNames |-> Absent]]
ThermalDeviceStates ==
    {ThermalNone,
     [ThermalNone EXCEPT !["hwmon0"]["temp1_input"] = File("ro", <<"3", "0", "0", "0", "0", "\n">>),
                         !["hwmon0"]["temp1_max"] = File("rw", <<"8", "0", "0", "0", "0", "\n">>)],
     [ThermalNone EXCEPT !["hwmon0"]["temp1_input"] = File("ro", <<"-", "5", "0", "0", "\n">>),
                         !["hwmon0"]["temp1_fault"] = File("ro", <<"0", "\n">>)],
     [ThermalNone EXCEPT !["hwmon*"]["temp1_input"] = File("ro", <<"4", "1", "0", "0", "5", "\n">>)],
     [ThermalNone EXCEPT !["hwmon*"]["temp1_input"] = File("ro", <<"4", "1", "0", "0", "5", "\n">>),
                         !["hwmon*"]["temp1_fault"] = File("ro", <<"0", "\n">>)],
     [ThermalNone EXCEPT !["hwmon*"]["temp1_input"] = File("ro", <<>>),
                         !["hwmon*"]["temp1_fault"] = File("ro", <<"1", "\n">>)],
     [ThermalNone EXCEPT !["hwmon0"]["temp1_input"] = File("ro", <<"3", "0", "0", "0", "0", "\n">>),
                         !["hwmon0"]["temp1_fault"] = File("ro", <<"0", "\n">>),
                         !["hwmon*"]["temp1_input"] = File("ro", <<"4", "1", "0", "0", "5", "\n">>),
                         !["hwmon*"]["temp1_fault"] = File("ro", <<"1", "\n">>)],
     [ThermalNone EXCEPT !["hwmon0"]["temp1_input"] = File("noperm", <<>>),
                         !["hwmon0"]["temp1_fault"] = File("noperm", <<>>),
                         !["hwmon*"]["temp1_input"] = File("ro", <<"2", "5", "\n">>),
                         !["hwmon*"]["temp1_fault"] = File("ro", <<"0", "\n">>)]}
\* the indexes Thermal() is constructed with
ThermalIndexArgs == -1..MaxThermalIndex

NoObject == [cls |-> "None"]
NoCall == [op |-> "none", arg |-> 0, acc |-> <<>>, out |-> Return(PyNone)]

InitFan ==
    /\ \E pres \in [1..(MaxFanTray + 1) -> PresentFiles],
          dir \in [0..MaxFanTray -> DirectionFiles],
          duty \in DutyFiles,
          rpm \in [{0, 1} -> RpmFiles] :
            sysfs = [p \in FanPaths |->
                IF \E n \in DOMAIN pres : p = FanPresentPath(n)
                THEN pres[CHOOSE n \in DOMAIN pres : p = FanPresentPath(n)]
                ELSE IF \E n \in DOMAIN dir : p = FanDirectionPath(n)
                THEN dir[CHOOSE n \in DOMAIN dir : p = FanDirectionPath(n)]
                ELSE IF p = FanDutyPath THEN duty
                ELSE rpm[CHOOSE i \in {0, 1} : p = PsuFanRpmPath(i)]]
    /\ THERMAL_NAME_LIST = <<>>
    /\ self = NoObject
    /\ call = NoCall

InitPsu ==
    /\ \E hw \in [{0, 1} -> PsuHwmonStates], cp \in [{0, 1} -> PsuCpldStates] :
            sysfs = [p \in PsuPaths |->
                IF \E i \in {0, 1}, k \in 1..6 : p = PsuHwmonPath(i, k)
                THEN LET ik == CHOOSE ik \in {0, 1} \X (1..6) : p = PsuHwmonPath(ik[1], ik[2])
                     IN  hw[ik[1]][ik[2]]
                ELSE LET ik == CHOOSE ik \in {0, 1} \X (1..2) : p = PsuCpldPath(ik[1], ik[2])
                     IN  cp[ik[1]][ik[2]]]
    /\ THERMAL_NAME_LIST = <<>>
    /\ self = NoObject
    /\ call = NoCall

InitComponent ==
    /\ \E bios \in BiosFiles, cpld \in CpldVersionFiles :
            sysfs = [p \in ComponentPaths |-> IF p = BIOS_VERSION_PATH THEN bios ELSE cpld]
    /\ THERMAL_NAME_LIST = <<>>
    /\ self = NoObject
    /\ call = NoCall

InitThermal ==
    /\ \E st \in [ThermalDevices -> ThermalDeviceStates] :
            sysfs = [p \in ThermalPaths |->
                LET k == CHOOSE k \in ThermalDevices \X HwmonDirNames \X ThermalFileNames :
                            p = ThermalFile(k[1], k[2], k[3])
                IN  st[k[1]][k[2]][k[3]]]
    /\ THERMAL_NAME_LIST = <<>>
    /\ self = NoObject
    /\ call = NoCall

Init == InitFan \/ InitPsu \/ InitComponent \/ InitThermal

(***************************************************************************)
(* The caller: it constructs an adapter object and invokes its methods,    *)
(* one at a time.  call is the last invocation: the method, its argument,  *)
(* the pseudo-file accesses it made and how it ended.                      *)
(***************************************************************************)
Invoke(op, arg, r) ==
    /\ sysfs' = r.fs
    /\ call' = [op |-> op, arg |-> arg, acc |-> r.acc, out |-> r.out]
    /\ UNCHANGED <<self, THERMAL_NAME_LIST>>

FanConstruct ==
    /\ DOMAIN sysfs = FanPaths
    /\ \E tray \in 0..MaxFanTray, is_psu_fan \in BOOLEAN, psu_index \in {0, 1} :
        /\ is_psu_fan \/ psu_index = 0
        /\ self' = Fan(tray, is_psu_fan, psu_index)
        /\ call' = [op |-> "Fan.__init__", arg |-> tray, acc |-> <<>>, out |-> Return(PyNone)]
    /\ UNCHANGED <<sysfs, THERMAL_NAME_LIST>>

FanGetPresence == self.cls = "Fan" /\ Invoke("Fan.get_presence", 0, Fan_get_presence(self, sysfs))
FanGetDirection == self.cls = "Fan" /\ Invoke("Fan.get_direction", 0, Fan_get_direction(self, sysfs))
FanGetSpeed == self.cls = "Fan" /\ Invoke("Fan.get_speed", 0, Fan_get_speed(self, sysfs))
FanSetSpeed ==
    /\ self.cls = "Fan"
    /\ \E speed \in SpeedArgs : Invoke("Fan.set_speed", speed, Fan_set_speed(self, sysfs, speed))

NextFan == FanConstruct \/ FanGetPresence \/ FanGetDirection \/ FanGetSpeed \/ FanSetSpeed

PsuConstruct ==
    /\ DOMAIN sysfs = PsuPaths
    /\ \E psu_index \in {0, 1} :
        /\ self' = Psu(psu_index)
        /\ call' = [op |-> "Psu.__init__", arg |-> psu_index, acc |-> <<>>,
                    out |-> Return(PyNone)]
    /\ UNCHANGED <<sysfs, THERMAL_NAME_LIST>>

PsuGetVoltage == self.cls = "Psu" /\ Invoke("Psu.get_voltage", 0, Psu_get_voltage(self, sysfs))
PsuGetCurrent == self.cls = "Psu" /\ Invoke("Psu.get_current", 0, Psu_get_current(self, sysfs))
PsuGetPower == self.cls = "Psu" /\ Invoke("Psu.get_power", 0, Psu_get_power(self, sysfs))
PsuGetTemperature ==
    self.cls = "Psu" /\ Invoke("Psu.get_temperature", 0, Psu_get_temperature(self, sysfs))
PsuGetVoltageHighThreshold ==
    /\ self.cls = "Psu"
    /\ Invoke("Psu.get_voltage_high_threshold", 0, Psu_get_voltage_high_threshold(self, sysfs))
PsuGetVoltageLowThreshold ==
    /\ self.cls = "Psu"
    /\ Invoke("Psu.get_voltage_low_threshold", 0, Psu_get_voltage_low_threshold(self, sysfs))
PsuGetName == self.cls = "Psu" /\ Invoke("Psu.get_name", 0, Psu_get_name(self, sysfs))
PsuGetPresence == self.cls = "Psu" /\ Invoke("Psu.get_presence", 0, Psu_get_presence(self, sysfs))
PsuGetStatus == self.cls = "Psu" /\ Invoke("Psu.get_status", 0, Psu_get_status(self, sysfs))
PsuGetPowergoodStatus ==
    self.cls = "Psu" /\ Invoke("Psu.get_powergood_status", 0, Psu_get_powergood_status(self, sysfs))

NextPsu ==
    \/ PsuConstruct \/ PsuGetVoltage \/ PsuGetCurrent \/ PsuGetPower \/ PsuGetTemperature
    \/ PsuGetVoltageHighThreshold \/ PsuGetVoltageLowThreshold \/ PsuGetName
    \/ PsuGetPresence \/ PsuGetStatus \/ PsuGetPowergoodStatus

ComponentConstruct ==
    /\ DOMAIN sysfs = ComponentPaths
    /\ \E component_index \in ComponentIndexArgs :
        LET r == Component(component_index)
        IN  /\ self' = IF r.kind = "return" THEN r.val ELSE self
            /\ call' = [op |-> "Component.__init__", arg |-> component_index, acc |-> <<>>,
                        out |-> IF r.kind = "return" THEN Return(PyNone) ELSE r]
    /\ UNCHANGED <<sysfs, THERMAL_NAME_LIST>>

ComponentGetName ==
    /\ self.cls = "Component"
    /\ Invoke("Component.get_name", 0,
              [acc |-> <<>>, fs |-> sysfs, out |-> Component_get_name(self.index)])
ComponentGetDescription ==
    /\ self.cls = "Component"
    /\ Invoke("Component.get_description", 0,
              [acc |-> <<>>, fs |-> sysfs, out |-> Component_get_description(self.index)])
ComponentGetFirmwareVersion ==
    /\ self.cls = "Component"
    /\ Invoke("Component.get_firmware_version", 0, Component_get_firmware_version(self, sysfs))

NextComponent ==
    \/ ComponentConstruct \/ ComponentGetName \/ ComponentGetDescription
    \/ ComponentGetFirmwareVersion

ThermalConstruct ==
    /\ DOMAIN sysfs = ThermalPaths
    /\ Len(THERMAL_NAME_LIST) < 3 * MaxThermalCtor
    /\ \E thermal_index \in ThermalIndexArgs :
        LET r == Thermal(thermal_index, THERMAL_NAME_LIST)
        IN  /\ THERMAL_NAME_LIST' = r.names
            /\ self' = IF r.out.kind = "return" THEN r.out.val ELSE self
            /\ call' = [op |-> "Thermal.__init__", arg |-> thermal_index, acc |-> <<>>,
                        out |-> IF r.out.kind = "return" THEN Return(PyNone) ELSE r.out]
    /\ UNCHANGED sysfs

ThermalGetName ==
    /\ self.cls = "Thermal"
    /\ Invoke("Thermal.get_name", 0,
              [acc |-> <<>>, fs |-> sysfs, out |-> Thermal_get_name(self, THERMAL_NAME_LIST)])
ThermalGetTemperature ==
    /\ self.cls = "Thermal"
    /\ \E r \in Thermal_get_temperature(self, sysfs) : Invoke("Thermal.get_temperature", 0, r)
ThermalGetHighThreshold ==
    /\ self.cls = "Thermal"
    /\ \E r \in Thermal_get_high_threshold(self, sysfs) : Invoke("Thermal.get_high_threshold", 0, r)
ThermalGetPresence ==
    self.cls = "Thermal" /\ Invoke("Thermal.get_presence", 0, Thermal_get_presence(self, sysfs))
ThermalGetStatus ==
    /\ self.cls = "Thermal"
    /\ \E r \in Thermal_get_status(self, sysfs) : Invoke("Thermal.get_status", 0, r)

NextThermal ==
    \/ ThermalConstruct \/ ThermalGetName \/ ThermalGetTemperature \/ ThermalGetHighThreshold
    \/ ThermalGetPresence \/ ThermalGetStatus

Next == NextFan \/ NextPsu \/ NextComponent \/ NextThermal

SpecFan == InitFan /\ [][NextFan]_vars
SpecPsu == InitPsu /\ [][NextPsu]_vars
SpecComponent == InitComponent /\ [][NextComponent]_vars
SpecThermal == InitThermal /\ [][NextThermal]_vars
Spec == Init /\ [][Next]_vars

(***************************************************************************)
(* Properties.                                                             *)
(***************************************************************************)
Constructors == {"Fan.__init__", "Psu.__init__", "Component.__init__", "Thermal.__init__"}
Invoked == call.op \notin Constructors \cup {"none"}
Returned == call.out.kind = "return"
\* the pseudo-file can be read and holds a decimal integer; that integer
ReadsInt(path) == Readable(sysfs, path) /\ IntOk(sysfs[path].data, 10)
IntRead(path) == PyInt(sysfs[path].data, 10)
ReadsAndWrites == SelectSeq(call.acc, LAMBDA a : a.kind \in {"read", "write"})
ExistenceTests == SelectSeq(call.acc, LAMBDA a : a.kind = "isfile")
\* the last invocation opened no path twice
NoRepeatedAccess ==
    \A i, j \in DOMAIN ReadsAndWrites :
        i # j => ReadsAndWrites[i].path # ReadsAndWrites[j].path

\* C1, as stated: every invocation of a public operation performs exactly
\* one pseudo-file access.
C1_SingleAccess == Invoked => Len(call.acc) = 1

OneReadOps ==
    {"Fan.get_presence", "Psu.get_voltage", "Psu.get_current", "Psu.get_power",
     "Psu.get_temperature", "Psu.get_voltage_high_threshold", "Psu.get_voltage_low_threshold",
     "Psu.get_presence", "Psu.get_status", "Psu.get_powergood_status",
     "Component.get_firmware_version"}
NoAccessOps ==
    {"Psu.get_name", "Component.get_name", "Component.get_description", "Thermal.get_name"}
ThermalReadOps == {"Thermal.get_temperature", "Thermal.get_high_threshold", "Thermal.get_status"}

\* C1, amended: no invocation opens the same pseudo-file twice.  The PSU getters, Fan.get_presence, a PSU fan's get_speed,
\* a chassis fan's get_direction and Component.get_firmware_version perform
\* exactly one read; the get_name and get_description operations and a PSU
\* fan's set_speed and get_direction access nothing; a chassis fan's
\* get_speed and set_speed first read the tray's present_<n> pseudo-file and,
\* only when it reads a non-zero integer, then read (get_speed) or write
\* (set_speed) duty_cycle_percentage; Thermal.get_presence performs one
\* existence test and no read, and the other Thermal operations perform at
\* most two existence tests (get_status only) followed by open attempts on
\* the matches of the sensor's wildcard path, each match at most once, all
\* but the last attempt on a file that cannot be opened.
C1_AccessPattern ==
    /\ Invoked => NoRepeatedAccess
    /\ call.op \in OneReadOps => Len(call.acc) = 1 /\ call.acc[1].kind = "read"
    /\ call.op \in NoAccessOps => call.acc = <<>>
    /\ call.op = "Fan.get_direction" =>
            IF self.is_psu_fan THEN call.acc = <<>>
            ELSE Len(call.acc) = 1 /\ call.acc[1].kind = "read"
    /\ call.op \in {"Fan.get_speed", "Fan.set_speed"} /\ self.is_psu_fan =>
            IF call.op = "Fan.get_speed"
            THEN Len(call.acc) = 1 /\ call.acc[1].kind = "read"
            ELSE call.acc = <<>>
    /\ call.op \in {"Fan.get_speed", "Fan.set_speed"} /\ ~self.is_psu_fan =>
            LET present == "/sys/bus/i2c/devices/3-0060/fan_present_"
                                \o ToString(self.fan_tray_index + 1)
                duty == "/sys/bus/i2c/devices/3-0060/fan_duty_cycle_percentage"
                second == IF call.op = "Fan.get_speed" THEN Rd(duty) ELSE Wr(duty)
            IN  IF ReadsInt(present) /\ IntRead(present) # 0
                THEN call.acc = <<Rd(present), second>>
                ELSE call.acc = <<Rd(present)>>
    /\ call.op = "Thermal.get_presence" =>
            Len(call.acc) = 1 /\ call.acc[1].kind = "isfile"
    /\ call.op \in ThermalReadOps =>
            /\ call.acc = ExistenceTests \o ReadsAndWrites
            /\ Len(ExistenceTests) <= (IF call.op = "Thermal.get_status" THEN 2 ELSE 0)
            /\ \A i \in DOMAIN ReadsAndWrites :
                    /\ ReadsAndWrites[i].kind = "read"
                    /\ Exists(sysfs, ReadsAndWrites[i].path)
                    /\ i < Len(ReadsAndWrites) => ~Readable(sysfs, ReadsAndWrites[i].path)

\* a present chassis fan's get_speed has made its two reads
C1_Witness ==
    /\ call.op = "Fan.get_speed" /\ ~self.is_psu_fan
    /\ Len(call.acc) = 2 /\ Returned

\* C2, as stated: the class-level table Thermal.THERMAL_NAME_LIST has the
\* contents it had before the first construction, the empty list.
C2_TablesUnchanged == THERMAL_NAME_LIST = <<>>

\* C3, as stated: whenever Fan.get_speed returns, it returns an integer in 0..100.
C3_SpeedIsPercentage ==
    call.op = "Fan.get_speed" /\ Returned =>
        call.out.val.t = "int" /\ call.out.val.n \in 0..100

\* C4, as stated: a chassis fan's get_direction returns EXHAUST when its
\* direction pseudo-file reads 0 and INTAKE when it reads a non-zero value; a
\* PSU fan's returns EXHAUST.
C4_DirectionFollowsFile ==
    call.op = "Fan.get_direction" =>
        IF self.is_psu_fan THEN call.out = Return(FAN_DIRECTION_EXHAUST)
        ELSE LET path == "/sys/bus/i2c/devices/3-0060/fan_direction_"
                            \o ToString(self.fan_tray_index)
             IN  ReadsInt(path) =>
                    call.out = Return(IF IntRead(path) = 0 THEN FAN_DIRECTION_EXHAUST
                                                           ELSE FAN_DIRECTION_INTAKE)

\* C5, as stated: Fan.set_speed always returns a boolean, True exactly when
\* the fan is a chassis fan that reads present and the write of the speed
\* succeeded (duty_cycle_percentage then holds str(speed)).
C5_SetSpeedReturnsBool ==
    call.op = "Fan.set_speed" =>
        /\ Returned
        /\ call.out.val.t = "bool"
        /\ call.out.val.b <=>
                /\ ~self.is_psu_fan
                /\ ReadsInt(FanPresentPath(self.fan_tray_index + 1))
                /\ IntRead(FanPresentPath(self.fan_tray_index + 1)) # 0
                /\ sysfs[FanDutyPath] = File("rw", PyStr(call.arg))

\* C6, as stated: Psu.get_presence, get_status and get_powergood_status always
\* return a boolean, True exactly when psu_present (psu_power_good for the
\* latter two) reads 1, False also when the pseudo-file is missing.
C6_PsuBooleans ==
    call.op \in {"Psu.get_presence", "Psu.get_status", "Psu.get_powergood_status"} =>
        LET path == "/sys/bus/i2c/devices/" \o (IF self.index = 0 THEN "10-0050" ELSE "11-0051")
                        \o (IF call.op = "Psu.get_presence" THEN "/psu_present"
                                                              ELSE "/psu_power_good")
        IN  call.out = Return(PyBool(ReadsInt(path) /\ IntRead(path) = 1))

\* C7, as stated: Thermal.get_presence returns True exactly when a temp1_input
\* pseudo-file exists under the sensor's hwmon directory, the file that
\* get_temperature resolves through the wildcard.
C7_PresenceFollowsFile ==
    call.op = "Thermal.get_presence" =>
        call.out = Return(PyBool(Glob(sysfs, Thermal_join(self.hwmon_path, "temp1_input")) # {}))

PsuTelemetryFile ==
    [op \in {"Psu.get_voltage", "Psu.get_current", "Psu.get_power", "Psu.get_temperature",
             "Psu.get_voltage_high_threshold", "Psu.get_voltage_low_threshold"} |->
        CASE op = "Psu.get_voltage" -> "psu_v_out"
          [] op = "Psu.get_current" -> "psu_i_out"
          [] op = "Psu.get_power" -> "psu_p_out"
          [] op = "Psu.get_temperature" -> "psu_temp1_input"
          [] op = "Psu.get_voltage_high_threshold" -> "psu_mfr_vout_max"
          [] op = "Psu.get_voltage_low_threshold" -> "psu_mfr_vout_min"]

C9_FirmwareVersion ==
    call.op = "Component.get_firmware_version" =>
        IF self.name = "BIOS"
        THEN call.out = Return(IF Readable(sysfs, "/sys/class/dmi/id/bios_version")
                               THEN PyStrV(Strip(sysfs["/sys/class/dmi/id/bios_version"].data))
                               ELSE PyNone)
        ELSE LET path == "/sys/bus/i2c/devices/3-0060/version"
             IN  call.out = Return(IF Readable(sysfs, path) /\ IntOk(sysfs[path].data, 16)
                                   THEN PyStrV(PyStr(PyInt(sysfs[path].data, 16)))
                                   ELSE PyNone)

\* C10, as stated: constructing Thermal(index) again ends as the construction
\* before it with the same index did, and get_name of a sensor with index in
\* 0..2 returns 'Temp sensor <index+1>'.
C10_IndexAlone ==
    [][/\ (call.op = "Thermal.__init__" /\ call'.op = "Thermal.__init__"
                /\ call'.arg = call.arg) => call'.out = call.out
       /\ (call'.op = "Thermal.get_name" /\ self'.index \in 0..2) =>
                call'.out = Return(PyName("Temp sensor " \o ToString(self'.index + 1)))]_vars

====
